---------------------------- MODULE Spec2Model ----------------------------
(***************************************************************************)
(* LaTeX -> spoken Russian text: the pipeline of                           *)
(* server/utils/tex_to_text.py (latex_to_text and its nine stages).        *)
(*                                                                         *)
(* A text is a sequence of characters, each character a one-character      *)
(* string.  Cyrillic letters are written "ru_<latin transliteration>"      *)
(* ("RU_..." for capitals): "ru_p","ru_l","ru_yu","ru_s" is the word for   *)
(* plus.  No pattern of the program distinguishes one Cyrillic letter      *)
(* from another; they are neither ASCII letters, digits nor whitespace.    *)
(***************************************************************************)
EXTENDS Integers, Sequences, FiniteSets, TLC

VARIABLES
    entry,  \* the function the caller calls: latex_to_text or latex_to_speech
    case,   \* which input was handed to the program (family and parameters)
    src,    \* the caller's original LaTeX string
    input,  \* latex_code of the current call of latex_to_text
    text,   \* the local variable text of latex_to_text
    marks,  \* per character of text: 0 = not yet rewritten by a parenthesis
            \* sub-rule, k = produced by sub-rule k (1 = a .. 5 = e)
    pc,     \* the statement that runs next
    pass    \* 1 = first call, 2 = the call on the first call's output

vars == <<entry, case, src, input, text, marks, pc, pass>>

-----------------------------------------------------------------------------
(* Character classes of Python's re and str                                *)

Lower == {"a","b","c","d","e","f","g","h","i","j","k","l","m",
          "n","o","p","q","r","s","t","u","v","w","x","y","z"}
Upper == {"A","B","C","D","E","F","G","H","I","J","K","L","M",
          "N","O","P","Q","R","S","T","U","V","W","X","Y","Z"}
Letters == Lower \cup Upper
Digits == {"0","1","2","3","4","5","6","7","8","9"}
AlNum == Letters \cup Digits
(* the whitespace of str.strip() and of \s in a str pattern: the characters
   for which str.isspace() holds.  Those without an escape are written
   "x<hex>" (below U+0100) or "u<hex>". *)
WS == {"\t", "\n", "x0b", "\f", "\r", "x1c", "x1d", "x1e",
       "x1f", " ", "x85", "xa0", "u1680", "u2000", "u2001", "u2002",
       "u2003", "u2004", "u2005", "u2006", "u2007", "u2008", "u2009", "u200a",
       "u2028", "u2029", "u202f", "u205f", "u3000"}

Min(S) == CHOOSE x \in S : \A y \in S : x <= y
Max(S) == CHOOSE x \in S : \A y \in S : x >= y

(* t[from..] as a sequence *)
Tail_(t, from) == SubSeq(t, from, Len(t))

(* lit occurs in t at position p *)
LitAt(t, p, lit) ==
    /\ p >= 1
    /\ p + Len(lit) - 1 <= Len(t)
    /\ \A j \in 1..Len(lit) : t[p + j - 1] = lit[j]

(* str.find: first position >= from at which lit occurs, 0 when none *)
Find(t, lit, from) ==
    LET P == {p \in from..(Len(t) - Len(lit) + 1) : LitAt(t, p, lit)}
    IN  IF P = {} THEN 0 ELSE Min(P)

(* the text left as it is: strip() forgotten *)
PyStripIdentity(t) == t

(* str.strip() *)
PyStrip(t) ==
    LET K == {i \in 1..Len(t) : t[i] \notin WS}
    IN  IF K = {} THEN <<>> ELSE SubSeq(t, Min(K), Max(K))

(* str.replace(key, rep): every non-overlapping occurrence, left to right *)
RECURSIVE PyReplace(_, _, _)
PyReplace(t, key, rep) ==
    LET p == Find(t, key, 1)
    IN  IF p = 0 THEN t
        ELSE SubSeq(t, 1, p - 1) \o rep
             \o PyReplace(Tail_(t, p + Len(key)), key, rep)

(* str.split(sep) *)
RECURSIVE PySplit(_, _)
PySplit(t, sep) ==
    LET p == Find(t, sep, 1)
    IN  IF p = 0 THEN <<t>>
        ELSE <<SubSeq(t, 1, p - 1)>> \o PySplit(Tail_(t, p + Len(sep)), sep)

(* sep.join(parts) *)
RECURSIVE PyJoin(_, _)
PyJoin(parts, sep) ==
    IF Len(parts) = 0 THEN <<>>
    ELSE IF Len(parts) = 1 THEN parts[1]
    ELSE parts[1] \o sep \o PyJoin(Tail(parts), sep)

(* str(n) for n >= 0 *)
DigitChar(d) == <<"0","1","2","3","4","5","6","7","8","9">>[d + 1]

RECURSIVE PyStr(_)
PyStr(n) == IF n < 10 THEN <<DigitChar(n)>>
            ELSE PyStr(n \div 10) \o <<DigitChar(n % 10)>>

(* number of occurrences of lit in t (str.count) *)
RECURSIVE PyCount(_, _)
PyCount(t, lit) ==
    LET p == Find(t, lit, 1)
    IN  IF p = 0 THEN 0 ELSE 1 + PyCount(Tail_(t, p + Len(lit)), lit)

(* last index of the longest run of characters of t from p on that are in
   the class S (that differ from c); p - 1 when the run is empty *)
RECURSIVE RunEndIn(_, _, _)
RunEndIn(t, p, S) ==
    IF p <= Len(t) /\ t[p] \in S THEN RunEndIn(t, p + 1, S) ELSE p - 1

RECURSIVE RunEndNot(_, _, _)
RunEndNot(t, p, c) ==
    IF p <= Len(t) /\ t[p] # c THEN RunEndNot(t, p + 1, c) ELSE p - 1

-----------------------------------------------------------------------------
(* The substitution tables, pair by pair as the dict literals list them    *)

matrix_types == <<
    <<<<"p","m","a","t","r","i","x">>, <<"ru_k","ru_r","ru_u","ru_g","ru_l","ru_y","ru_e"," ","ru_s","ru_k","ru_o","ru_b","ru_k","ru_i">>>>,
    <<<<"b","m","a","t","r","i","x">>, <<"ru_k","ru_v","ru_a","ru_d","ru_r","ru_a","ru_t","ru_n","ru_y","ru_e"," ","ru_s","ru_k","ru_o","ru_b","ru_k","ru_i">>>>,
    <<<<"v","m","a","t","r","i","x">>, <<"ru_v","ru_e","ru_r","ru_t","ru_i","ru_k","ru_a","ru_l","ru_soft","ru_n","ru_y","ru_e"," ","ru_ch","ru_e","ru_r","ru_t","ru_y">>>>,
    <<<<"V","m","a","t","r","i","x">>, <<"ru_d","ru_v","ru_o","ru_j","ru_n","ru_y","ru_e"," ","ru_v","ru_e","ru_r","ru_t","ru_i","ru_k","ru_a","ru_l","ru_soft","ru_n","ru_y","ru_e"," ","ru_ch","ru_e","ru_r","ru_t","ru_y">>>> >>

math_symbols_literal == <<
    <<<<"+">>, <<" ","ru_p","ru_l","ru_yu","ru_s"," ">>>>,
    <<<<"-">>, <<" ","ru_m","ru_i","ru_n","ru_u","ru_s"," ">>>>,
    <<<<"*">>, <<" ","ru_u","ru_m","ru_n","ru_o","ru_zh","ru_i","ru_t","ru_soft"," ","ru_n","ru_a"," ">>>>,
    <<<<"\\","c","d","o","t">>, <<" ","ru_u","ru_m","ru_n","ru_o","ru_zh","ru_i","ru_t","ru_soft"," ","ru_n","ru_a"," ">>>>,
    <<<<"\\","t","i","m","e","s">>, <<" ","ru_u","ru_m","ru_n","ru_o","ru_zh","ru_i","ru_t","ru_soft"," ","ru_n","ru_a"," ">>>>,
    <<<<"\\","d","i","v">>, <<" ","ru_r","ru_a","ru_z","ru_d","ru_e","ru_l","ru_i","ru_t","ru_soft"," ","ru_n","ru_a"," ">>>>,
    <<<<"=">>, <<" ","ru_r","ru_a","ru_v","ru_n","ru_o"," ">>>>,
    <<<<"\\","n","e","q">>, <<" ","ru_n","ru_e"," ","ru_r","ru_a","ru_v","ru_n","ru_o"," ">>>>,
    <<<<"<">>, <<" ","ru_m","ru_e","ru_n","ru_soft","ru_sh","ru_e"," ">>>>,
    <<<<">">>, <<" ","ru_b","ru_o","ru_l","ru_soft","ru_sh","ru_e"," ">>>>,
    <<<<"\\","l","e","q">>, <<" ","ru_m","ru_e","ru_n","ru_soft","ru_sh","ru_e"," ","ru_i","ru_l","ru_i"," ","ru_r","ru_a","ru_v","ru_n","ru_o"," ">>>>,
    <<<<"\\","g","e","q">>, <<" ","ru_b","ru_o","ru_l","ru_soft","ru_sh","ru_e"," ","ru_i","ru_l","ru_i"," ","ru_r","ru_a","ru_v","ru_n","ru_o"," ">>>>,
    <<<<"\\","a","p","p","r","o","x">>, <<" ","ru_p","ru_r","ru_i","ru_b","ru_l","ru_i","ru_z","ru_i","ru_t","ru_e","ru_l","ru_soft","ru_n","ru_o"," ","ru_r","ru_a","ru_v","ru_n","ru_o"," ">>>>,
    <<<<"\\","e","q","u","i","v">>, <<" ","ru_t","ru_o","ru_zh","ru_d","ru_e","ru_s","ru_t","ru_v","ru_e","ru_n","ru_n","ru_o"," ","ru_r","ru_a","ru_v","ru_n","ru_o"," ">>>>,
    <<<<"\\","p","r","o","p","t","o">>, <<" ","ru_p","ru_r","ru_o","ru_p","ru_o","ru_r","ru_c","ru_i","ru_o","ru_n","ru_a","ru_l","ru_soft","ru_n","ru_o"," ">>>>,
    <<<<"\\","i","n","f","t","y">>, <<" ","ru_b","ru_e","ru_s","ru_k","ru_o","ru_n","ru_e","ru_ch","ru_n","ru_o","ru_s","ru_t","ru_soft"," ">>>>,
    <<<<"\\","p","m">>, <<" ","ru_p","ru_l","ru_yu","ru_s"," ","ru_m","ru_i","ru_n","ru_u","ru_s"," ">>>>,
    <<<<"\\","m","p">>, <<" ","ru_m","ru_i","ru_n","ru_u","ru_s"," ","ru_p","ru_l","ru_yu","ru_s"," ">>>>,
    <<<<"\\","s","u","m">>, <<" ","ru_s","ru_u","ru_m","ru_m","ru_a"," ">>>>,
    <<<<"\\","p","r","o","d">>, <<" ","ru_p","ru_r","ru_o","ru_i","ru_z","ru_v","ru_e","ru_d","ru_e","ru_n","ru_i","ru_e"," ">>>>,
    <<<<"\\","i","n","t">>, <<" ","ru_i","ru_n","ru_t","ru_e","ru_g","ru_r","ru_a","ru_l"," ">>>>,
    <<<<"\\","l","i","m">>, <<" ","ru_p","ru_r","ru_e","ru_d","ru_e","ru_l"," ">>>>,
    <<<<"\\","s","i","n">>, <<" ","ru_s","ru_i","ru_n","ru_u","ru_s"," ">>>>,
    <<<<"\\","c","o","s">>, <<" ","ru_k","ru_o","ru_s","ru_i","ru_n","ru_u","ru_s"," ">>>>,
    <<<<"\\","t","a","n">>, <<" ","ru_t","ru_a","ru_n","ru_g","ru_e","ru_n","ru_s"," ">>>>,
    <<<<"\\","l","o","g">>, <<" ","ru_l","ru_o","ru_g","ru_a","ru_r","ru_i","ru_f","ru_m"," ">>>>,
    <<<<"\\","l","n">>, <<" ","ru_n","ru_a","ru_t","ru_u","ru_r","ru_a","ru_l","ru_soft","ru_n","ru_y","ru_j"," ","ru_l","ru_o","ru_g","ru_a","ru_r","ru_i","ru_f","ru_m"," ">>>>,
    <<<<"\\","e","x","p">>, <<" ","ru_eh","ru_k","ru_s","ru_p","ru_o","ru_n","ru_e","ru_n","ru_t","ru_a"," ">>>> >>

commands_literal == <<
    <<<<"\\","t","e","x","t","{">>, <<" ">>>>,
    <<<<"\\","t","e","x","t","b","f","{">>, <<" ">>>>,
    <<<<"\\","t","e","x","t","i","t","{">>, <<" ">>>>,
    <<<<"\\","e","m","p","h","{">>, <<" ">>>>,
    <<<<"\\","u","n","d","e","r","l","i","n","e","{">>, <<" ">>>>,
    <<<<"\\","o","v","e","r","l","i","n","e","{">>, <<" ">>>>,
    <<<<"\\","h","a","t","{">>, <<" ">>>>,
    <<<<"\\","t","i","l","d","e","{">>, <<" ">>>>,
    <<<<"\\","v","e","c","{">>, <<" ">>>>,
    <<<<"\\","b","a","r","{">>, <<" ">>>>,
    <<<<"\\","d","o","t","{">>, <<" ">>>>,
    <<<<"\\","d","d","o","t","{">>, <<" ">>>>,
    <<<<"\\","a","l","p","h","a">>, <<"ru_a","ru_l","ru_soft","ru_f","ru_a">>>>,
    <<<<"\\","b","e","t","a">>, <<"ru_b","ru_e","ru_t","ru_a">>>>,
    <<<<"\\","g","a","m","m","a">>, <<"ru_g","ru_a","ru_m","ru_m","ru_a">>>>,
    <<<<"\\","d","e","l","t","a">>, <<"ru_d","ru_e","ru_l","ru_soft","ru_t","ru_a">>>>,
    <<<<"\\","e","p","s","i","l","o","n">>, <<"ru_eh","ru_p","ru_s","ru_i","ru_l","ru_o","ru_n">>>>,
    <<<<"\\","v","a","r","e","p","s","i","l","o","n">>, <<"ru_eh","ru_p","ru_s","ru_i","ru_l","ru_o","ru_n">>>>,
    <<<<"\\","z","e","t","a">>, <<"ru_d","ru_z","ru_e","ru_t","ru_a">>>>,
    <<<<"\\","e","t","a">>, <<"ru_eh","ru_t","ru_a">>>>,
    <<<<"\\","t","h","e","t","a">>, <<"ru_t","ru_e","ru_t","ru_a">>>>,
    <<<<"\\","v","a","r","t","h","e","t","a">>, <<"ru_t","ru_e","ru_t","ru_a">>>>,
    <<<<"\\","i","o","t","a">>, <<"ru_j","ru_o","ru_t","ru_a">>>>,
    <<<<"\\","k","a","p","p","a">>, <<"ru_k","ru_a","ru_p","ru_p","ru_a">>>>,
    <<<<"\\","l","a","m","b","d","a">>, <<"ru_l","ru_ya","ru_m","ru_b","ru_d","ru_a">>>>,
    <<<<"\\","m","u">>, <<"ru_m","ru_yu">>>>,
    <<<<"\\","n","u">>, <<"ru_n","ru_yu">>>>,
    <<<<"\\","x","i">>, <<"ru_k","ru_s","ru_i">>>>,
    <<<<"\\","p","i">>, <<"ru_p","ru_i">>>>,
    <<<<"\\","v","a","r","p","i">>, <<"ru_p","ru_i">>>>,
    <<<<"\\","r","h","o">>, <<"ru_r","ru_o">>>>,
    <<<<"\\","v","a","r","r","h","o">>, <<"ru_r","ru_o">>>>,
    <<<<"\\","s","i","g","m","a">>, <<"ru_s","ru_i","ru_g","ru_m","ru_a">>>>,
    <<<<"\\","v","a","r","s","i","g","m","a">>, <<"ru_s","ru_i","ru_g","ru_m","ru_a">>>>,
    <<<<"\\","t","a","u">>, <<"ru_t","ru_a","ru_u">>>>,
    <<<<"\\","u","p","s","i","l","o","n">>, <<"ru_i","ru_p","ru_s","ru_i","ru_l","ru_o","ru_n">>>>,
    <<<<"\\","p","h","i">>, <<"ru_f","ru_i">>>>,
    <<<<"\\","v","a","r","p","h","i">>, <<"ru_f","ru_i">>>>,
    <<<<"\\","c","h","i">>, <<"ru_h","ru_i">>>>,
    <<<<"\\","p","s","i">>, <<"ru_p","ru_s","ru_i">>>>,
    <<<<"\\","o","m","e","g","a">>, <<"ru_o","ru_m","ru_e","ru_g","ru_a">>>> >>

greek_letters_literal == <<
    <<<<"\\","A","l","p","h","a">>, <<"RU_a","ru_l","ru_soft","ru_f","ru_a">>>>,
    <<<<"\\","B","e","t","a">>, <<"RU_b","ru_e","ru_t","ru_a">>>>,
    <<<<"\\","G","a","m","m","a">>, <<"RU_g","ru_a","ru_m","ru_m","ru_a">>>>,
    <<<<"\\","D","e","l","t","a">>, <<"RU_d","ru_e","ru_l","ru_soft","ru_t","ru_a">>>>,
    <<<<"\\","E","p","s","i","l","o","n">>, <<"RU_eh","ru_p","ru_s","ru_i","ru_l","ru_o","ru_n">>>>,
    <<<<"\\","Z","e","t","a">>, <<"RU_d","ru_z","ru_e","ru_t","ru_a">>>>,
    <<<<"\\","E","t","a">>, <<"RU_eh","ru_t","ru_a">>>>,
    <<<<"\\","T","h","e","t","a">>, <<"RU_t","ru_e","ru_t","ru_a">>>>,
    <<<<"\\","I","o","t","a">>, <<"RU_j","ru_o","ru_t","ru_a">>>>,
    <<<<"\\","K","a","p","p","a">>, <<"RU_k","ru_a","ru_p","ru_p","ru_a">>>>,
    <<<<"\\","L","a","m","b","d","a">>, <<"RU_l","ru_ya","ru_m","ru_b","ru_d","ru_a">>>>,
    <<<<"\\","M","u">>, <<"RU_m","ru_yu">>>>,
    <<<<"\\","N","u">>, <<"RU_n","ru_yu">>>>,
    <<<<"\\","X","i">>, <<"RU_k","ru_s","ru_i">>>>,
    <<<<"\\","P","i">>, <<"RU_p","ru_i">>>>,
    <<<<"\\","R","h","o">>, <<"RU_r","ru_o">>>>,
    <<<<"\\","S","i","g","m","a">>, <<"RU_s","ru_i","ru_g","ru_m","ru_a">>>>,
    <<<<"\\","T","a","u">>, <<"RU_t","ru_a","ru_u">>>>,
    <<<<"\\","U","p","s","i","l","o","n">>, <<"RU_i","ru_p","ru_s","ru_i","ru_l","ru_o","ru_n">>>>,
    <<<<"\\","P","h","i">>, <<"RU_f","ru_i">>>>,
    <<<<"\\","C","h","i">>, <<"RU_h","ru_i">>>>,
    <<<<"\\","P","s","i">>, <<"RU_p","ru_s","ru_i">>>>,
    <<<<"\\","O","m","e","g","a">>, <<"RU_o","ru_m","ru_e","ru_g","ru_a">>>> >>

special_symbols_literal == <<
    <<<<"\\","r","i","g","h","t","a","r","r","o","w">>, <<" ","ru_s","ru_t","ru_r","ru_e","ru_l","ru_k","ru_a"," ","ru_v","ru_p","ru_r","ru_a","ru_v","ru_o"," ">>>>,
    <<<<"\\","l","e","f","t","a","r","r","o","w">>, <<" ","ru_s","ru_t","ru_r","ru_e","ru_l","ru_k","ru_a"," ","ru_v","ru_l","ru_e","ru_v","ru_o"," ">>>>,
    <<<<"\\","l","e","f","t","r","i","g","h","t","a","r","r","o","w">>, <<" ","ru_s","ru_t","ru_r","ru_e","ru_l","ru_k","ru_a"," ","ru_v"," ","ru_o","ru_b","ru_e"," ","ru_s","ru_t","ru_o","ru_r","ru_o","ru_n","ru_y"," ">>>>,
    <<<<"\\","R","i","g","h","t","a","r","r","o","w">>, <<" ","ru_d","ru_v","ru_o","ru_j","ru_n","ru_a","ru_ya"," ","ru_s","ru_t","ru_r","ru_e","ru_l","ru_k","ru_a"," ","ru_v","ru_p","ru_r","ru_a","ru_v","ru_o"," ">>>>,
    <<<<"\\","L","e","f","t","a","r","r","o","w">>, <<" ","ru_d","ru_v","ru_o","ru_j","ru_n","ru_a","ru_ya"," ","ru_s","ru_t","ru_r","ru_e","ru_l","ru_k","ru_a"," ","ru_v","ru_l","ru_e","ru_v","ru_o"," ">>>>,
    <<<<"\\","L","e","f","t","r","i","g","h","t","a","r","r","o","w">>, <<" ","ru_d","ru_v","ru_o","ru_j","ru_n","ru_a","ru_ya"," ","ru_s","ru_t","ru_r","ru_e","ru_l","ru_k","ru_a"," ","ru_v"," ","ru_o","ru_b","ru_e"," ","ru_s","ru_t","ru_o","ru_r","ru_o","ru_n","ru_y"," ">>>>,
    <<<<"\\","u","p","a","r","r","o","w">>, <<" ","ru_s","ru_t","ru_r","ru_e","ru_l","ru_k","ru_a"," ","ru_v","ru_v","ru_e","ru_r","ru_h"," ">>>>,
    <<<<"\\","d","o","w","n","a","r","r","o","w">>, <<" ","ru_s","ru_t","ru_r","ru_e","ru_l","ru_k","ru_a"," ","ru_v","ru_n","ru_i","ru_z"," ">>>>,
    <<<<"\\","u","p","d","o","w","n","a","r","r","o","w">>, <<" ","ru_s","ru_t","ru_r","ru_e","ru_l","ru_k","ru_a"," ","ru_v","ru_v","ru_e","ru_r","ru_h","-","ru_v","ru_n","ru_i","ru_z"," ">>>>,
    <<<<"\\","i","n">>, <<" ","ru_p","ru_r","ru_i","ru_n","ru_a","ru_d","ru_l","ru_e","ru_zh","ru_i","ru_t"," ">>>>,
    <<<<"\\","n","o","t","i","n">>, <<" ","ru_n","ru_e"," ","ru_p","ru_r","ru_i","ru_n","ru_a","ru_d","ru_l","ru_e","ru_zh","ru_i","ru_t"," ">>>>,
    <<<<"\\","s","u","b","s","e","t">>, <<" ","ru_p","ru_o","ru_d","ru_m","ru_n","ru_o","ru_zh","ru_e","ru_s","ru_t","ru_v","ru_o"," ">>>>,
    <<<<"\\","s","u","p","s","e","t">>, <<" ","ru_n","ru_a","ru_d","ru_m","ru_n","ru_o","ru_zh","ru_e","ru_s","ru_t","ru_v","ru_o"," ">>>>,
    <<<<"\\","s","u","b","s","e","t","e","q">>, <<" ","ru_p","ru_o","ru_d","ru_m","ru_n","ru_o","ru_zh","ru_e","ru_s","ru_t","ru_v","ru_o"," ","ru_i","ru_l","ru_i"," ","ru_r","ru_a","ru_v","ru_n","ru_o"," ">>>>,
    <<<<"\\","s","u","p","s","e","t","e","q">>, <<" ","ru_n","ru_a","ru_d","ru_m","ru_n","ru_o","ru_zh","ru_e","ru_s","ru_t","ru_v","ru_o"," ","ru_i","ru_l","ru_i"," ","ru_r","ru_a","ru_v","ru_n","ru_o"," ">>>>,
    <<<<"\\","c","u","p">>, <<" ","ru_o","ru_b","ru_hard","ru_e","ru_d","ru_i","ru_n","ru_e","ru_n","ru_i","ru_e"," ">>>>,
    <<<<"\\","c","a","p">>, <<" ","ru_p","ru_e","ru_r","ru_e","ru_s","ru_e","ru_ch","ru_e","ru_n","ru_i","ru_e"," ">>>>,
    <<<<"\\","e","m","p","t","y","s","e","t">>, <<" ","ru_p","ru_u","ru_s","ru_t","ru_o","ru_e"," ","ru_m","ru_n","ru_o","ru_zh","ru_e","ru_s","ru_t","ru_v","ru_o"," ">>>>,
    <<<<"\\","v","a","r","n","o","t","h","i","n","g">>, <<" ","ru_p","ru_u","ru_s","ru_t","ru_o","ru_e"," ","ru_m","ru_n","ru_o","ru_zh","ru_e","ru_s","ru_t","ru_v","ru_o"," ">>>>,
    <<<<"\\","f","o","r","a","l","l">>, <<" ","ru_d","ru_l","ru_ya"," ","ru_v","ru_s","ru_e","ru_h"," ">>>>,
    <<<<"\\","e","x","i","s","t","s">>, <<" ","ru_s","ru_u","ru_sch","ru_e","ru_s","ru_t","ru_v","ru_u","ru_e","ru_t"," ">>>>,
    <<<<"\\","n","e","x","i","s","t","s">>, <<" ","ru_n","ru_e"," ","ru_s","ru_u","ru_sch","ru_e","ru_s","ru_t","ru_v","ru_u","ru_e","ru_t"," ">>>>,
    <<<<"\\","l","a","n","d">>, <<" ","ru_i"," ">>>>,
    <<<<"\\","l","o","r">>, <<" ","ru_i","ru_l","ru_i"," ">>>>,
    <<<<"\\","l","n","o","t">>, <<" ","ru_n","ru_e"," ">>>>,
    <<<<"\\","n","e","g">>, <<" ","ru_n","ru_e"," ">>>>,
    <<<<"\\","R","i","g","h","t","a","r","r","o","w">>, <<" ","ru_s","ru_l","ru_e","ru_d","ru_o","ru_v","ru_a","ru_t","ru_e","ru_l","ru_soft","ru_n","ru_o"," ">>>>,
    <<<<"\\","L","e","f","t","r","i","g","h","t","a","r","r","o","w">>, <<" ","ru_t","ru_o","ru_g","ru_d","ru_a"," ","ru_i"," ","ru_t","ru_o","ru_l","ru_soft","ru_k","ru_o"," ","ru_t","ru_o","ru_g","ru_d","ru_a"," ">>>>,
    <<<<"\\","i","f","f">>, <<" ","ru_t","ru_o","ru_g","ru_d","ru_a"," ","ru_i"," ","ru_t","ru_o","ru_l","ru_soft","ru_k","ru_o"," ","ru_t","ru_o","ru_g","ru_d","ru_a"," ">>>> >>

(* A Python dict display: a key written twice keeps the place of its first
   occurrence and the value of its last one. *)
RECURSIVE DictBuild(_, _)
DictBuild(lit, i) ==
    IF i > Len(lit) THEN <<>>
    ELSE IF \A j \in 1..(i - 1) : lit[j][1] # lit[i][1]
         THEN LET last == Max({j \in 1..Len(lit) : lit[j][1] = lit[i][1]})
              IN  <<<<lit[i][1], lit[last][2]>>>> \o DictBuild(lit, i + 1)
    ELSE DictBuild(lit, i + 1)

DictOf(lit) == DictBuild(lit, 1)

(* the commands table with the backslash of each Greek key left out *)
commands_unescaped ==
    LET d == DictOf(commands_literal)
    IN  [i \in 1..Len(d) |->
           IF d[i][1][Len(d[i][1])] = "{" THEN d[i] ELSE <<Tail(d[i][1]), d[i][2]>>]

(* the dicts the stages iterate over *)
math_symbols == DictOf(math_symbols_literal)
commands == DictOf(commands_literal)
greek_letters == DictOf(greek_letters_literal)
special_symbols == DictOf(special_symbols_literal)

(* for key, replacement in table.items(): text = text.replace(key, replacement) *)
RECURSIVE ReplaceEach(_, _, _)
ReplaceEach(t, table, i) ==
    IF i > Len(table) THEN t
    ELSE LET t1 == PyReplace(t, table[i][1], table[i][2])
         IN  IF Len(t1) >= 0 THEN ReplaceEach(t1, table, i + 1) ELSE t1

-----------------------------------------------------------------------------
(* The regular expressions.  Match(pat, t, s) is what re finds when it     *)
(* tries pattern pat at position s of t: e is the last index of the match  *)
(* (0: no match at s) and g its groups.  Every pattern of the program is   *)
(* a literal, then greedy runs of one character class each closed by a     *)
(* character outside the class, so the greedy match is the only match.     *)

NoMatch == [e |-> 0, g |-> <<>>]

\* open ([^close]{min,}) close
Delimited(t, p, open, close, min) ==
    IF p > Len(t) \/ t[p] # open THEN NoMatch
    ELSE LET r == RunEndNot(t, p + 1, close)
         IN  IF r - p >= min /\ r < Len(t)
             THEN [e |-> r + 1, g |-> <<SubSeq(t, p + 1, r)>>]
             ELSE NoMatch

\* \\begin\{name\}(.*?)\\end\{name\} with re.DOTALL
matrix_pattern(name, t, s) ==
    LET begin == <<"\\","b","e","g","i","n","{">> \o name \o <<"}">>
        end   == <<"\\","e","n","d","{">> \o name \o <<"}">>
        q     == Find(t, end, s + Len(begin))
    IN  IF LitAt(t, s, begin) /\ q # 0
        THEN [e |-> q + Len(end) - 1, g |-> <<SubSeq(t, s + Len(begin), q - 1)>>]
        ELSE NoMatch

\* cmd\{([^}]+)\}\{([^}]+)\} for cmd = \frac, \dfrac, \cfrac
\* the numerator group closed by its balancing brace instead of the first one
RECURSIVE BalancedEnd(_, _, _)
BalancedEnd(t, p, depth) ==
    IF p > Len(t) THEN 0
    ELSE IF t[p] = "{" THEN BalancedEnd(t, p + 1, depth + 1)
    ELSE IF t[p] = "}" THEN (IF depth = 1 THEN p ELSE BalancedEnd(t, p + 1, depth - 1))
    ELSE BalancedEnd(t, p + 1, depth)

frac_pattern_balanced(cmd, t, s) ==
    IF ~LitAt(t, s, cmd \o <<"{">>) THEN NoMatch
    ELSE LET p  == s + Len(cmd)
             e1 == BalancedEnd(t, p + 1, 1)
             m2 == IF e1 <= p + 1 THEN NoMatch
                   ELSE Delimited(t, e1 + 1, "{", "}", 1)
         IN  IF m2.e = 0 THEN NoMatch
             ELSE [e |-> m2.e, g |-> <<SubSeq(t, p + 1, e1 - 1), m2.g[1]>>]

frac_pattern(cmd, t, s) ==
    IF ~LitAt(t, s, cmd) THEN NoMatch
    ELSE LET m1 == Delimited(t, s + Len(cmd), "{", "}", 1)
             m2 == IF m1.e = 0 THEN NoMatch
                   ELSE Delimited(t, m1.e + 1, "{", "}", 1)
         IN  IF m2.e = 0 THEN NoMatch
             ELSE [e |-> m2.e, g |-> <<m1.g[1], m2.g[1]>>]

\* \\sqrt\{([^}]+)\}
sqrt_pattern(t, s) ==
    IF ~LitAt(t, s, <<"\\","s","q","r","t">>) THEN NoMatch
    ELSE Delimited(t, s + 5, "{", "}", 1)

\* \\sqrt\[([^\]]+)\]\{([^}]+)\}
nsqrt_pattern(t, s) ==
    IF ~LitAt(t, s, <<"\\","s","q","r","t">>) THEN NoMatch
    ELSE LET m1 == Delimited(t, s + 5, "[", "]", 1)
             m2 == IF m1.e = 0 THEN NoMatch
                   ELSE Delimited(t, m1.e + 1, "{", "}", 1)
         IN  IF m2.e = 0 THEN NoMatch
             ELSE [e |-> m2.e, g |-> <<m1.g[1], m2.g[1]>>]

\* \^(\{([^}]+)\}|([a-zA-Z0-9]+)); g = <<group 2, group 3>>, <<>> = unset
superscript_pattern(t, s) ==
    IF s > Len(t) \/ t[s] # "^" THEN NoMatch
    ELSE LET m1 == Delimited(t, s + 1, "{", "}", 1)
             r  == RunEndIn(t, s + 1, AlNum)
         IN  IF m1.e # 0 THEN [e |-> m1.e, g |-> <<m1.g[1], <<>>>>]
             ELSE IF r >= s + 1
                  THEN [e |-> r, g |-> <<<<>>, SubSeq(t, s + 1, r)>>]
             ELSE NoMatch

\* ([a-zA-Z]+)\(([a-zA-Z]+)\)
func_single_pattern(t, s) ==
    LET r  == RunEndIn(t, s, Letters)
        r2 == RunEndIn(t, r + 2, Letters)
    IN  IF /\ r >= s
           /\ r + 1 <= Len(t) /\ t[r + 1] = "("
           /\ r2 >= r + 2
           /\ r2 + 1 <= Len(t) /\ t[r2 + 1] = ")"
        THEN [e |-> r2 + 1, g |-> <<SubSeq(t, s, r), SubSeq(t, r + 2, r2)>>]
        ELSE NoMatch

\* ([a-zA-Z]+)\((.{2,})\): the argument runs to the last closing parenthesis
func_complex_pattern_greedy(t, s) ==
    LET r     == RunEndIn(t, s, Letters)
        close == {i \in (r + 4)..Len(t) :
                    t[i] = ")" /\ \A j \in (r + 2)..i : t[j] # "\n"}
    IN  IF r >= s /\ r + 1 <= Len(t) /\ t[r + 1] = "(" /\ close # {}
        THEN [e |-> Max(close), g |-> <<SubSeq(t, s, r), SubSeq(t, r + 2, Max(close) - 1)>>]
        ELSE NoMatch

\* ([a-zA-Z]+)\(([^)]{2,})\)
func_complex_pattern(t, s) ==
    LET r == RunEndIn(t, s, Letters)
        m == Delimited(t, r + 1, "(", ")", 2)
    IN  IF r >= s /\ m.e # 0
        THEN [e |-> m.e, g |-> <<SubSeq(t, s, r), m.g[1]>>]
        ELSE NoMatch

(* (?<![a-zA-Z]) *)
NotAfterLetter(t, s) == s = 1 \/ t[s - 1] \notin Letters

\* (?<![a-zA-Z])\(([a-zA-Z]+)\)
single_var_pattern(t, s) ==
    LET r == RunEndIn(t, s + 1, Letters)
    IN  IF /\ s <= Len(t) /\ t[s] = "("
           /\ NotAfterLetter(t, s)
           /\ r >= s + 1
           /\ r + 1 <= Len(t) /\ t[r + 1] = ")"
        THEN [e |-> r + 1, g |-> <<SubSeq(t, s + 1, r)>>]
        ELSE NoMatch

\* (?<![a-zA-Z])\(([a-zA-Z]+)-([a-zA-Z0-9]+)\)
var_minus_pattern(t, s) ==
    LET r  == RunEndIn(t, s + 1, Letters)
        r2 == RunEndIn(t, r + 2, AlNum)
    IN  IF /\ s <= Len(t) /\ t[s] = "("
           /\ NotAfterLetter(t, s)
           /\ r >= s + 1
           /\ r + 1 <= Len(t) /\ t[r + 1] = "-"
           /\ r2 >= r + 2
           /\ r2 + 1 <= Len(t) /\ t[r2 + 1] = ")"
        THEN [e |-> r2 + 1, g |-> <<SubSeq(t, s + 1, r), SubSeq(t, r + 2, r2)>>]
        ELSE NoMatch

\* \(([^)]{2,})\)
complex_paren_pattern(t, s) == Delimited(t, s, "(", ")", 2)

\* \{([^}]*)\}
brace_pattern(t, s) == Delimited(t, s, "{", "}", 0)

\* \s+
space_pattern(t, s) ==
    LET r == RunEndIn(t, s, WS)
    IN  IF r >= s THEN [e |-> r, g |-> <<>>] ELSE NoMatch

Match(pat, t, s) ==
    CASE pat.kind = "matrix"       -> matrix_pattern(pat.name, t, s)
      [] pat.kind = "frac"         -> frac_pattern(pat.cmd, t, s)
      [] pat.kind = "sqrt"         -> sqrt_pattern(t, s)
      [] pat.kind = "nsqrt"        -> nsqrt_pattern(t, s)
      [] pat.kind = "superscript"  -> superscript_pattern(t, s)
      [] pat.kind = "func_single"  -> func_single_pattern(t, s)
      [] pat.kind = "func_complex" -> func_complex_pattern(t, s)
      [] pat.kind = "single_var"   -> single_var_pattern(t, s)
      [] pat.kind = "var_minus"    -> var_minus_pattern(t, s)
      [] pat.kind = "complex_paren" -> complex_paren_pattern(t, s)
      [] pat.kind = "brace"        -> brace_pattern(t, s)
      [] pat.kind = "space"        -> space_pattern(t, s)

-----------------------------------------------------------------------------
(* The replacement functions                                               *)

(* row.strip() for the rows of content.split('\\') that are not blank *)
MatrixRows(content) ==
    LET split == PySplit(content, <<"\\", "\\">>)
    IN  SelectSeq([i \in 1..Len(split) |-> PyStrip(split[i])], LAMBDA r : r # <<>>)

(* [elem.strip() for elem in row.split('&')] *)
RowElements(row) ==
    LET c == PySplit(row, <<"&">>) IN [j \in 1..Len(c) |-> PyStrip(c[j])]

(* the loop  for i, row in enumerate(rows, 1): result += ... *)
RECURSIVE RowLines(_, _)
RowLines(rows, i) ==
    IF i > Len(rows) THEN <<>>
    ELSE <<","," ","ru_s","ru_t","ru_r","ru_o","ru_k","ru_a"," ">> \o PyStr(i) \o <<":"," ">>
         \o PyJoin(RowElements(rows[i]), <<","," ">>) \o RowLines(rows, i + 1)

(* the cell count of the first row only *)
max_cols_first_row(rows) == Len(PySplit(rows[1], <<"&">>))

(* max(len(row.split('&')) for row in rows) *)
max_cols_of(rows) == Max({Len(PySplit(rows[i], <<"&">>)) : i \in 1..Len(rows)})

(* the shared body of replace_matrix and replace_typed_matrix; suffix is
   empty for the plain environment and " v <description>" for the others *)
MatrixNarration(group1, suffix) ==
    LET rows       == MatrixRows(PyStrip(group1))
        max_cols   == max_cols_of(rows)
        rows_count == Len(rows)
    IN  IF rows = <<>> THEN <<"ru_p","ru_u","ru_s","ru_t","ru_a","ru_ya"," ","ru_m","ru_a","ru_t","ru_r","ru_i","ru_c","ru_a">> \o suffix
        ELSE IF rows_count = 1 /\ max_cols > 1
        THEN <<"ru_s","ru_t","ru_r","ru_o","ru_k","ru_a"," ","ru_i","ru_z"," ">> \o PyStr(Len(RowElements(rows[1]))) \o <<" ","ru_eh","ru_l","ru_e","ru_m","ru_e","ru_n","ru_t","ru_o","ru_v">>
             \o suffix \o <<":"," ">> \o PyJoin(RowElements(rows[1]), <<","," ">>)
        ELSE IF max_cols = 1 /\ rows_count > 1
        THEN <<"ru_s","ru_t","ru_o","ru_l","ru_b","ru_e","ru_c"," ","ru_i","ru_z"," ">> \o PyStr(rows_count) \o <<" ","ru_eh","ru_l","ru_e","ru_m","ru_e","ru_n","ru_t","ru_o","ru_v">>
             \o suffix \o <<":"," ">> \o PyJoin(rows, <<","," ">>)
        ELSE <<"ru_m","ru_a","ru_t","ru_r","ru_i","ru_c","ru_a"," ">> \o PyStr(rows_count) \o <<" ","ru_n","ru_a"," ">> \o PyStr(max_cols)
             \o suffix \o RowLines(rows, 1)

replace_matrix(m) == MatrixNarration(m.g[1], <<>>)

replace_typed_matrix(m, description) ==
    MatrixNarration(m.g[1], <<" ","ru_v"," ">> \o description)

replace_frac(m) ==
    <<"ru_d","ru_r","ru_o","ru_b","ru_soft",","," ","ru_s","ru_v","ru_e","ru_r","ru_h","ru_u"," ">> \o PyStrip(m.g[1]) \o <<","," ","ru_s","ru_n","ru_i","ru_z","ru_u"," ">> \o PyStrip(m.g[2])

replace_sqrt(m) ==
    <<"ru_p","ru_o","ru_d"," ","ru_k","ru_o","ru_r","ru_n","ru_e","ru_m"," ">> \o PyStrip(m.g[1]) \o <<" ","ru_k","ru_o","ru_n","ru_e","ru_c"," ","ru_k","ru_o","ru_r","ru_n","ru_ya">>

replace_nsqrt(m) ==
    <<"ru_k","ru_o","ru_r","ru_e","ru_n","ru_soft"," ">> \o PyStrip(m.g[1]) \o <<" ","ru_s","ru_t","ru_e","ru_p","ru_e","ru_n","ru_i"," ","ru_p","ru_o","ru_d"," ","ru_k","ru_o","ru_r","ru_n","ru_e","ru_m"," ">>
    \o PyStrip(m.g[2]) \o <<" ","ru_k","ru_o","ru_n","ru_e","ru_c"," ","ru_k","ru_o","ru_r","ru_n","ru_ya">>

replace_superscript(m) ==
    <<" ","ru_v"," ","ru_s","ru_t","ru_e","ru_p","ru_e","ru_n","ru_i"," ">> \o (IF m.g[1] # <<>> THEN PyStrip(m.g[1]) ELSE PyStrip(m.g[2]))

replace_func_single(m) == PyStrip(m.g[1]) \o <<" ","ru_o","ru_t"," ">> \o PyStrip(m.g[2])

replace_func_complex(m) ==
    PyStrip(m.g[1]) \o <<" ","ru_s","ru_k","ru_o","ru_b","ru_k","ru_a"," ","ru_o","ru_t","ru_k","ru_r","ru_y","ru_v","ru_a","ru_e","ru_t","ru_s","ru_ya"," ">> \o PyStrip(m.g[2])
    \o <<" ","ru_s","ru_k","ru_o","ru_b","ru_k","ru_a"," ","ru_z","ru_a","ru_k","ru_r","ru_y","ru_v","ru_a","ru_e","ru_t","ru_s","ru_ya">>

replace_single_var(m) == <<"ru_o","ru_t"," ">> \o PyStrip(m.g[1])

replace_var_minus(m) ==
    <<"ru_o","ru_t"," ">> \o PyStrip(m.g[1]) \o <<" ","ru_m","ru_i","ru_n","ru_u","ru_s"," ">> \o PyStrip(m.g[2])

replace_complex_paren(m) ==
    <<"ru_s","ru_k","ru_o","ru_b","ru_k","ru_a"," ","ru_o","ru_t","ru_k","ru_r","ru_y","ru_v","ru_a","ru_e","ru_t","ru_s","ru_ya"," ">> \o PyStrip(m.g[1]) \o <<" ","ru_s","ru_k","ru_o","ru_b","ru_k","ru_a"," ","ru_z","ru_a","ru_k","ru_r","ru_y","ru_v","ru_a","ru_e","ru_t","ru_s","ru_ya">>

Replacement(pat, m) ==
    CASE pat.kind = "matrix"       -> IF pat.desc = <<>> THEN replace_matrix(m)
                                      ELSE replace_typed_matrix(m, pat.desc)
      [] pat.kind = "frac"         -> replace_frac(m)
      [] pat.kind = "sqrt"         -> replace_sqrt(m)
      [] pat.kind = "nsqrt"        -> replace_nsqrt(m)
      [] pat.kind = "superscript"  -> replace_superscript(m)
      [] pat.kind = "func_single"  -> replace_func_single(m)
      [] pat.kind = "func_complex" -> replace_func_complex(m)
      [] pat.kind = "single_var"   -> replace_single_var(m)
      [] pat.kind = "var_minus"    -> replace_var_minus(m)
      [] pat.kind = "complex_paren" -> replace_complex_paren(m)
      [] pat.kind = "brace"        -> m.g[1]
      [] pat.kind = "space"        -> <<" ">>

-----------------------------------------------------------------------------
(* re.sub(pattern, repl, text): the matches are found left to right, each   *)
(* search starting where the previous match ended.                          *)

RECURSIVE Matches(_, _, _)
Matches(pat, t, from) ==
    LET S == {s \in from..Len(t) : Match(pat, t, s).e # 0}
    IN  IF S = {} THEN <<>>
        ELSE LET s == Min(S)
                 m == Match(pat, t, s)
             IN  <<[s |-> s, e |-> m.e, g |-> m.g]>> \o Matches(pat, t, m.e + 1)

RECURSIVE Rebuild(_, _, _, _, _)
Rebuild(pat, t, ms, i, from) ==
    IF i > Len(ms) THEN Tail_(t, from)
    ELSE SubSeq(t, from, ms[i].s - 1) \o Replacement(pat, ms[i])
         \o Rebuild(pat, t, ms, i + 1, ms[i].e + 1)

ReSub(pat, t) == Rebuild(pat, t, Matches(pat, t, 1), 1, 1)

(* the marks of ReSub(pat, t) when t carries marks mk and the pass is
   sub-rule k: kept characters keep their mark, every replacement gets k *)
RECURSIVE RebuildMarks(_, _, _, _, _, _)
RebuildMarks(pat, mk, ms, i, from, k) ==
    IF i > Len(ms) THEN Tail_(mk, from)
    ELSE SubSeq(mk, from, ms[i].s - 1)
         \o [j \in 1..Len(Replacement(pat, ms[i])) |-> k]
         \o RebuildMarks(pat, mk, ms, i + 1, ms[i].e + 1, k)

ReSubMarks(pat, t, mk, k) == RebuildMarks(pat, mk, Matches(pat, t, 1), 1, 1, k)

-----------------------------------------------------------------------------
(* The stages of latex_to_text                                             *)

RECURSIVE TypedMatrices(_, _)
TypedMatrices(t, i) ==
    IF i > Len(matrix_types) THEN t
    ELSE TypedMatrices(ReSub([kind |-> "matrix", name |-> matrix_types[i][1],
                              desc |-> matrix_types[i][2]], t), i + 1)

process_matrices(t) ==
    TypedMatrices(ReSub([kind |-> "matrix", name |-> <<"m","a","t","r","i","x">>, desc |-> <<>>], t), 1)

process_fractions(t) ==
    LET t1 == ReSub([kind |-> "frac", cmd |-> <<"\\","f","r","a","c">>], t)
        t2 == ReSub([kind |-> "frac", cmd |-> <<"\\","d","f","r","a","c">>], t1)
    IN  ReSub([kind |-> "frac", cmd |-> <<"\\","c","f","r","a","c">>], t2)

process_square_roots(t) ==
    ReSub([kind |-> "nsqrt"], ReSub([kind |-> "sqrt"], t))

(* re.sub(..., count=1): only the first exponent is rewritten *)
superscripts_first_only(t) ==
    LET pat == [kind |-> "superscript"]
        ms  == Matches(pat, t, 1)
    IN  IF ms = <<>> THEN t ELSE Rebuild(pat, t, <<ms[1]>>, 1, 1)

process_superscripts(t) == ReSub([kind |-> "superscript"], t)

(* the sub-rules with the generic rule (e) run first *)
ParenRuleGenericFirst(k) ==
    [kind |-> <<"complex_paren", "func_single", "func_complex", "single_var",
                "var_minus">>[k]]

(* the five sub-rules of _process_parentheses, in the order they run *)
ParenRule(k) ==
    [kind |-> <<"func_single", "func_complex", "single_var", "var_minus",
                "complex_paren">>[k]]

RECURSIVE ParenFrom(_, _)
ParenFrom(t, k) == IF k > 5 THEN t ELSE ParenFrom(ReSub(ParenRule(k), t), k + 1)

process_parentheses(t) == ParenFrom(t, 1)

process_math_symbols(t) == ReplaceEach(t, math_symbols, 1)

process_common_commands(t) ==
    ReSub([kind |-> "brace"], ReplaceEach(t, commands, 1))

process_greek_letters(t) == ReplaceEach(t, greek_letters, 1)

process_special_symbols(t) == ReplaceEach(t, special_symbols, 1)

(* re.sub(r'\s+', ' ', text).strip() *)
Normalize(t) == PyStrip(ReSub([kind |-> "space"], t))

(* Evaluated(t) is TRUE; asking for it makes TLC compute t on the spot, so
   that a chain of stages is evaluated stage by stage. *)
Evaluated(t) == Len(t) >= 0

latex_to_text(latex_code) ==
    IF latex_code = <<>> THEN <<>>
    ELSE LET t0 == PyStrip(latex_code)
             t1 == process_matrices(t0)
             t2 == process_fractions(t1)
             t3 == process_square_roots(t2)
             t4 == process_superscripts(t3)
             t5 == process_parentheses(t4)
             t6 == process_math_symbols(t5)
             t7 == process_common_commands(t6)
             t8 == process_greek_letters(t7)
             t9 == process_special_symbols(t8)
         IN  IF /\ Evaluated(t0) /\ Evaluated(t1) /\ Evaluated(t2)
                /\ Evaluated(t3) /\ Evaluated(t4) /\ Evaluated(t5)
                /\ Evaluated(t6) /\ Evaluated(t7) /\ Evaluated(t8)
                /\ Evaluated(t9)
             THEN Normalize(t9) ELSE <<>>

-----------------------------------------------------------------------------
(* The inputs handed to the program.  Each case is a family of LaTeX        *)
(* strings and the parameters that pick one string of the family.          *)

MaxStyleLen == 2    \* length of the content of a styling command
MaxRows == 2        \* rows of a generated matrix body
MaxCols == 2        \* cells of a row of a generated matrix body
MaxArgLen == 3      \* characters between the outer parentheses
MaxChain == 2       \* Greek commands joined into one formula
MaxBlank == 2       \* length of a whitespace-only input
MaxNumLen == 4      \* characters of a fraction's numerator group

SeqsUpTo(A, n) == UNION {[1..k -> A] : k \in 0..n}

StyleAlphabet == {"a", "+"}
ParenAlphabet == {"x", "1", "-", "(", ")"}
NumAlphabet == {"a", "{", "}"}
FracCommands == {<<"\\","f","r","a","c">>, <<"\\","d","f","r","a","c">>, <<"\\","c","f","r","a","c">>}
CellLetters == <<"a","b","c","d","e","f","g","h","i","j","k","l","m","n","o","p","q","r","s","t","u","v","w","x","y","z">>

Indent == <<"\n", " ", " ", " ", " ">>

(* the formulas of main()'s test_latex, one by one and as the whole string,
   and the examples of the specification *)
FixedInputs == <<
    <<"x","^","2"," ","+"," ","y","^","2"," ","="," ","z","^","2">>,
    <<"\\","f","r","a","c","{","a","}","{","b","}"," ","="," ","c">>,
    <<"f","(","x",")"," ","="," ","g","(","x","-","1",")">>,
    <<"\\","b","e","g","i","n","{","m","a","t","r","i","x","}","a"," ","&"," ","b"," ","\\","\\"," ","c"," ","&"," ","d","\\","e","n","d","{","m","a","t","r","i","x","}">>,
    <<"\\","a","l","p","h","a"," ","+"," ","\\","b","e","t","a"," ","="," ","\\","g","a","m","m","a">>,
    Indent \o <<"x","^","2"," ","+"," ","y","^","2"," ","="," ","z","^","2">> \o Indent \o <<"\\","f","r","a","c","{","a","}","{","b","}"," ","="," ","c">>
      \o Indent \o <<"f","(","x",")"," ","="," ","g","(","x","-","1",")">> \o Indent \o <<"\\","b","e","g","i","n","{","m","a","t","r","i","x","}">>
      \o Indent \o <<"a"," ","&"," ","b"," ","\\","\\">> \o Indent \o <<"c"," ","&"," ","d">>
      \o Indent \o <<"\\","e","n","d","{","m","a","t","r","i","x","}">> \o Indent \o <<"\\","a","l","p","h","a"," ","+"," ","\\","b","e","t","a"," ","="," ","\\","g","a","m","m","a">>
      \o Indent,
    <<"\\","b","e","g","i","n","{","m","a","t","r","i","x","}","a"," ","&"," ","b"," ","&"," ","c","\\","e","n","d","{","m","a","t","r","i","x","}">>,
    <<"f","(","(","t",")",")">>,
    <<"\\","f","r","a","c","{","a","{","b","}","}","{","c","}">>,
    <<"\\","f","r","a","c","{","a","{","b","}","{","c","}","}","{","d","}">> >>

TableLiteral(tb) ==
    CASE tb = "math"     -> math_symbols_literal
      [] tb = "commands" -> commands_literal
      [] tb = "greek"    -> greek_letters_literal
      [] tb = "special"  -> special_symbols_literal

TableNames == {"math", "commands", "greek", "special"}

(* the keys of the commands table that open a brace group: \text{ .. \ddot{ *)
StylingIdx ==
    {i \in 1..Len(commands_literal) :
        commands_literal[i][1][Len(commands_literal[i][1])] = "{"}

(* the lowercase Greek commands of the commands table *)
GreekIdx == (1..Len(commands_literal)) \ StylingIdx

Cases ==
    {[fam |-> "fixed", i |-> i] : i \in 1..Len(FixedInputs)}
    \cup UNION {{[fam |-> "key", table |-> tb, i |-> i] :
                    i \in 1..Len(TableLiteral(tb))} : tb \in TableNames}
    \cup {[fam |-> "styled", i |-> i, x |-> x] :
             i \in StylingIdx, x \in SeqsUpTo(StyleAlphabet, MaxStyleLen)}
    \cup {[fam |-> "matrix", env |-> e, cols |-> cs, style |-> st] :
             e \in 0..Len(matrix_types), cs \in SeqsUpTo(1..MaxCols, MaxRows),
             st \in {"tight", "spaced", "blankrow"}}
    \cup {[fam |-> "paren", pre |-> pre, arg |-> a] :
             pre \in {<<>>, <<"f">>},
             a \in SeqsUpTo(ParenAlphabet, MaxArgLen) \ {<<>>}}
    \cup {c \in [fam : {"greek"}, i : GreekIdx, n : 1..MaxChain,
                 first : {"+", "="}, spaced : BOOLEAN] :
             c.n = 1 => (c.first = "+" /\ ~c.spaced)}
    \cup {[fam |-> "blank", s |-> s] : s \in SeqsUpTo(WS, MaxBlank)}
    \cup {[fam |-> "frac", cmd |-> cmd, num |-> num] :
             cmd \in FracCommands,
             num \in SeqsUpTo(NumAlphabet, MaxNumLen) \ {<<>>}}

(* the name of a matrix environment: 0 is the plain one *)
EnvName(e) == IF e = 0 THEN <<"m","a","t","r","i","x">> ELSE matrix_types[e][1]

(* cell j of row i of a generated matrix: one letter, by position *)
CellName(i, j) == <<CellLetters[(i - 1) * MaxCols + j]>>

MatrixBody(cols, style) ==
    LET pad    == IF style = "spaced" THEN <<" ">> ELSE <<>>
        row(i) == PyJoin([j \in 1..cols[i] |-> CellName(i, j)], pad \o <<"&">> \o pad)
        body   == PyJoin([i \in 1..Len(cols) |-> row(i)],
                         pad \o <<"\\", "\\">> \o (IF style = "spaced" THEN <<"\n">> ELSE <<>>))
    IN  CASE style = "tight"    -> body
          [] style = "spaced"   -> <<"\n", " ">> \o body \o <<"\n">>
          [] style = "blankrow" -> <<" ", "\\", "\\">> \o body \o <<"\\", "\\", " ">>

(* the Greek command that is k places after the i-th pair of the table *)
GreekKey(i, k) ==
    LET first == Min(GreekIdx)
        count == Cardinality(GreekIdx)
    IN  commands_literal[first + ((i - first + k) % count)][1]

OtherOp(op) == IF op = "+" THEN "=" ELSE "+"

RECURSIVE GreekChain(_, _, _, _, _)
GreekChain(i, k, n, op, spaced) ==
    IF k = n - 1 THEN GreekKey(i, k)
    ELSE GreekKey(i, k)
         \o (IF spaced THEN <<" ", op, " ">> ELSE <<op>>)
         \o GreekChain(i, k + 1, n, OtherOp(op), spaced)

InputOf(c) ==
    CASE c.fam = "fixed"  -> FixedInputs[c.i]
      [] c.fam = "key"    -> TableLiteral(c.table)[c.i][1]
      [] c.fam = "styled" -> commands_literal[c.i][1] \o c.x \o <<"}">>
      [] c.fam = "matrix" -> <<"\\","b","e","g","i","n","{">> \o EnvName(c.env) \o <<"}">>
                             \o MatrixBody(c.cols, c.style)
                             \o <<"\\","e","n","d","{">> \o EnvName(c.env) \o <<"}">>
      [] c.fam = "paren"  -> c.pre \o <<"(">> \o c.arg \o <<")">>
      [] c.fam = "greek"  -> GreekChain(c.i, 0, c.n, c.first, c.spaced)
      [] c.fam = "blank"  -> c.s
      [] c.fam = "frac"   -> c.cmd \o <<"{">> \o c.num \o <<"}","{","c","}">>

-----------------------------------------------------------------------------
(* The program: latex_to_text statement by statement, then latex_to_speech  *)
(* handing the result to speak_rhvoice, which converts it again and runs    *)
(* spd-say on it.                                                           *)

Zeros(t) == [j \in 1..Len(t) |-> 0]

Entries == {"latex_to_text", "latex_to_speech"}

Init ==
    /\ entry \in Entries
    /\ case \in Cases
    /\ src = InputOf(case)
    /\ input = src
    /\ text = <<>>
    /\ marks = <<>>
    /\ pc = IF entry = "latex_to_speech" THEN "import" ELSE "call"
    /\ pass = 1

(* latex_to_speech: from voice import speak_rhvoice, the module found *)
ImportVoice ==
    /\ pc = "import"
    /\ pc' = "call"
    /\ UNCHANGED <<entry, case, src, input, text, marks, pass>>

(* latex_to_speech: the import raises ImportError (voice.py is not on
   sys.path); the except branch prints its message and the function returns
   with nothing converted and nothing spoken *)
ImportVoiceFails ==
    /\ pc = "import"
    /\ pc' = "voice_missing"
    /\ UNCHANGED <<entry, case, src, input, text, marks, pass>>

(* if not latex_code: return "" *)
ReturnEmpty ==
    /\ pc = "call"
    /\ input = <<>>
    /\ text' = <<>>
    /\ pc' = "return"
    /\ UNCHANGED <<entry, case, src, input, marks, pass>>

(* text = latex_code.strip() *)
Strip ==
    /\ pc = "call"
    /\ input # <<>>
    /\ text' = PyStrip(input)
    /\ pc' = "matrices"
    /\ UNCHANGED <<entry, case, src, input, marks, pass>>

Matrices ==
    /\ pc = "matrices"
    /\ text' = process_matrices(text)
    /\ pc' = "fractions"
    /\ UNCHANGED <<entry, case, src, input, marks, pass>>

Fractions ==
    /\ pc = "fractions"
    /\ text' = process_fractions(text)
    /\ pc' = "square_roots"
    /\ UNCHANGED <<entry, case, src, input, marks, pass>>

SquareRoots ==
    /\ pc = "square_roots"
    /\ text' = process_square_roots(text)
    /\ pc' = "superscripts"
    /\ UNCHANGED <<entry, case, src, input, marks, pass>>

Superscripts ==
    /\ pc = "superscripts"
    /\ text' = process_superscripts(text)
    /\ marks' = Zeros(text')
    /\ pc' = "paren_1"
    /\ UNCHANGED <<entry, case, src, input, pass>>

(* one re.sub of _process_parentheses: sub-rule k over the whole text *)
ParenPass(k) ==
    /\ pc = <<"paren_1", "paren_2", "paren_3", "paren_4", "paren_5">>[k]
    /\ text' = ReSub(ParenRule(k), text)
    /\ marks' = ReSubMarks(ParenRule(k), text, marks, k)
    /\ pc' = <<"paren_2", "paren_3", "paren_4", "paren_5", "math_symbols">>[k]
    /\ UNCHANGED <<entry, case, src, input, pass>>

FuncSingle == ParenPass(1)
FuncComplex == ParenPass(2)
SingleVar == ParenPass(3)
VarMinus == ParenPass(4)
ComplexParen == ParenPass(5)

MathSymbols ==
    /\ pc = "math_symbols"
    /\ text' = process_math_symbols(text)
    /\ marks' = <<>>
    /\ pc' = "common_commands"
    /\ UNCHANGED <<entry, case, src, input, pass>>

CommonCommands ==
    /\ pc = "common_commands"
    /\ text' = process_common_commands(text)
    /\ pc' = "greek_letters"
    /\ UNCHANGED <<entry, case, src, input, marks, pass>>

GreekLetters ==
    /\ pc = "greek_letters"
    /\ text' = process_greek_letters(text)
    /\ pc' = "special_symbols"
    /\ UNCHANGED <<entry, case, src, input, marks, pass>>

SpecialSymbols ==
    /\ pc = "special_symbols"
    /\ text' = process_special_symbols(text)
    /\ pc' = "normalize"
    /\ UNCHANGED <<entry, case, src, input, marks, pass>>

(* text = re.sub(r'\s+', ' ', text).strip(); return text *)
NormalizeSpaces ==
    /\ pc = "normalize"
    /\ text' = Normalize(text)
    /\ pc' = "return"
    /\ UNCHANGED <<entry, case, src, input, marks, pass>>

(* latex_to_speech: text = latex_to_text(latex_code) has returned, then
   speak_rhvoice(text, voice=voice, rate=rate, lang=lang); convert_latex is
   not passed and keeps its default True *)
Speak ==
    /\ entry = "latex_to_speech"
    /\ pc = "return"
    /\ pass = 1
    /\ pc' = "speak"
    /\ UNCHANGED <<entry, case, src, input, text, marks, pass>>

(* speak_rhvoice: if not text: return *)
SpeakNothing ==
    /\ pc = "speak"
    /\ text = <<>>
    /\ pc' = "silent"
    /\ UNCHANGED <<entry, case, src, input, text, marks, pass>>

(* speak_rhvoice: if convert_latex: text = latex_to_text(text) *)
Reconvert ==
    /\ pc = "speak"
    /\ text # <<>>
    /\ input' = text
    /\ text' = <<>>
    /\ pass' = 2
    /\ pc' = "call"
    /\ UNCHANGED <<entry, case, src, marks>>

(* speak_rhvoice with spd-say on the PATH: cmd += [text];
   subprocess.run(cmd, check=True).  text stays the last element of cmd. *)
SpdSay ==
    /\ pc = "return"
    /\ pass = 2
    /\ pc' = "spd_say"
    /\ UNCHANGED <<entry, case, src, input, text, marks, pass>>

(* speak_rhvoice without spd-say: raise RuntimeError, which latex_to_speech
   catches and prints; no command is run *)
SpdSayMissing ==
    /\ pc = "return"
    /\ pass = 2
    /\ pc' = "engine_missing"
    /\ UNCHANGED <<entry, case, src, input, text, marks, pass>>

Next ==
    \/ ImportVoice \/ ImportVoiceFails
    \/ ReturnEmpty \/ Strip \/ Matrices \/ Fractions \/ SquareRoots
    \/ Superscripts \/ FuncSingle \/ FuncComplex \/ SingleVar \/ VarMinus
    \/ ComplexParen \/ MathSymbols \/ CommonCommands \/ GreekLetters
    \/ SpecialSymbols \/ NormalizeSpaces
    \/ Speak \/ SpeakNothing \/ Reconvert \/ SpdSay \/ SpdSayMissing

Spec == Init /\ [][Next]_vars

(* the value the first call returned, while the second call runs *)
FirstOutput == input

-----------------------------------------------------------------------------
(* Properties                                                              *)

Chars(t) == {t[j] : j \in 1..Len(t)}

(* the first call has returned text *)
Out1 == pc = "return" /\ pass = 1

(* the call on the first call's output has returned text *)
Out2 == pc = "return" /\ pass = 2

(* the input is one key of the operator, Greek or special-symbol tables *)
IsSymbolKey(c) ==
    /\ c.fam = "key"
    /\ ~(c.table = "commands" /\ c.i \in StylingIdx)

(* the phrase the dict display gives for key: its last definition *)
LastValue(lit, key) == lit[Max({j \in 1..Len(lit) : lit[j][1] = key})][2]

\* C1: for every single key k of the operator, Greek and special-symbol
\* tables, converting the output of latex_to_text(k) again returns it
\* unchanged: latex_to_text(latex_to_text(k)) = latex_to_text(k).
C1_KeyIdempotent ==
    (Out2 /\ IsSymbolKey(case)) => text = FirstOutput

\* C2: for every key k of the special-symbols table, latex_to_text(k) is the
\* phrase the table gives for k (for a key defined twice, the second
\* definition) with its padding spaces trimmed.
C2_SpecialKeyPhrase ==
    (Out1 /\ case.fam = "key" /\ case.table = "special")
        => text = PyStrip(LastValue(special_symbols_literal, src))

\* C3: for each text-styling command c and brace-free content X,
\* latex_to_text(c{X}) equals latex_to_text(X) and contains neither brace.
C3_StylingStripped ==
    (Out1 /\ case.fam = "styled")
        => /\ text = latex_to_text(case.x)
           /\ "{" \notin Chars(text)
           /\ "}" \notin Chars(text)

IsPythagoras == case = [fam |-> "fixed", i |-> 1]

C4_Rest ==
    /\ PyCount(text, <<"ru_p","ru_l","ru_yu","ru_s">>) = 1
    /\ PyCount(text, <<"ru_r","ru_a","ru_v","ru_n","ru_o">>) = 1
    /\ Chars(text) \cap {"^", "+", "="} = {}

\* C4 as stated: latex_to_text("x^2 + y^2 = z^2") contains the exponent phrase
\* for 2 exactly twice, plus and equals once each, and no '^', '+' or '='.
C4_PowerTwice ==
    (Out1 /\ IsPythagoras) => (PyCount(text, <<"ru_v"," ","ru_s","ru_t","ru_e","ru_p","ru_e","ru_n","ru_i"," ","2">>) = 2 /\ C4_Rest)

\* C4 as amended: latex_to_text("x^2 + y^2 = z^2") contains the exponent
\* phrase for 2 exactly three times (once for each of x^2, y^2, z^2), the
\* phrases for plus and equals exactly once each, and no '^', '+' or '='.
C4_PowerThrice ==
    (Out1 /\ IsPythagoras) => (PyCount(text, <<"ru_v"," ","ru_s","ru_t","ru_e","ru_p","ru_e","ru_n","ru_i"," ","2">>) = 3 /\ C4_Rest)

C4_Witness ==
    Out1 /\ IsPythagoras /\ PyCount(text, <<"ru_v"," ","ru_s","ru_t","ru_e","ru_p","ru_e","ru_n","ru_i"," ","2">>) > 0

(* what the claim says a generated matrix is narrated as: R rows, C the
   largest number of cells of a row, the cells of row i being CellName(i, j) *)
ExpectedMatrix(c) ==
    LET R == Len(c.cols)
        C == Max({c.cols[i] : i \in 1..R})
        style == IF c.env = 0 THEN <<>> ELSE <<" ","ru_v"," ">> \o matrix_types[c.env][2]
        row(i) == PyJoin([j \in 1..c.cols[i] |-> CellName(i, j)], <<","," ">>)
        rows == [i \in 1..R |-> <<","," ","ru_s","ru_t","ru_r","ru_o","ru_k","ru_a"," ">> \o PyStr(i) \o <<":"," ">> \o row(i)]
    IN  IF R = 0 THEN <<"ru_p","ru_u","ru_s","ru_t","ru_a","ru_ya"," ","ru_m","ru_a","ru_t","ru_r","ru_i","ru_c","ru_a">> \o style
        ELSE IF R = 1 /\ C > 1
        THEN <<"ru_s","ru_t","ru_r","ru_o","ru_k","ru_a"," ","ru_i","ru_z"," ">> \o PyStr(C) \o <<" ","ru_eh","ru_l","ru_e","ru_m","ru_e","ru_n","ru_t","ru_o","ru_v">> \o style \o <<":"," ">> \o row(1)
        ELSE IF C = 1 /\ R > 1
        THEN <<"ru_s","ru_t","ru_o","ru_l","ru_b","ru_e","ru_c"," ","ru_i","ru_z"," ">> \o PyStr(R) \o <<" ","ru_eh","ru_l","ru_e","ru_m","ru_e","ru_n","ru_t","ru_o","ru_v">> \o style \o <<":"," ">>
             \o PyJoin([i \in 1..R |-> CellName(i, 1)], <<","," ">>)
        ELSE <<"ru_m","ru_a","ru_t","ru_r","ru_i","ru_c","ru_a"," ">> \o PyStr(R) \o <<" ","ru_n","ru_a"," ">> \o PyStr(C) \o style
             \o PyJoin(rows, <<>>)

\* C5: matrix expansion narrates every matrix environment by its non-blank
\* rows R and its largest cell count C: no rows is the empty matrix, one row of
\* several cells a row of C elements, several rows of one cell a column of R
\* elements, anything else (1 by 1 and ragged rows included) "matrix R by C"
\* followed by each row's own cells; the four non-plain environments name
\* their delimiter style; and the two examples come out as the claim says.
C5_MatrixClassified ==
    /\ (pc = "fractions" /\ pass = 1 /\ case.fam = "matrix")
          => text = ExpectedMatrix(case)
    /\ (Out1 /\ case = [fam |-> "fixed", i |-> 4])
          => text = <<"ru_m","ru_a","ru_t","ru_r","ru_i","ru_c","ru_a"," ","2"," ","ru_n","ru_a"," ","2",","," ","ru_s","ru_t","ru_r","ru_o","ru_k","ru_a"," ","1",":"," ","a",","," ","b",","," ","ru_s","ru_t","ru_r","ru_o","ru_k","ru_a"," ","2",":"," ","c",","," ","d">>
    /\ (Out1 /\ case = [fam |-> "fixed", i |-> 7])
          => text = <<"ru_s","ru_t","ru_r","ru_o","ru_k","ru_a"," ","ru_i","ru_z"," ","3"," ","ru_eh","ru_l","ru_e","ru_m","ru_e","ru_n","ru_t","ru_o","ru_v",":"," ","a",","," ","b",","," ","c">>

C5_Witness ==
    /\ pc = "fractions" /\ pass = 1
    /\ case.fam = "matrix" /\ case.env = 2 /\ case.cols = <<1, 2>>
    /\ case.style = "blankrow"
    /\ LitAt(text, 1, <<"ru_m","ru_a","ru_t","ru_r","ru_i","ru_c","ru_a"," ","2"," ","ru_n","ru_a"," ","2"," ","ru_v"," ">>)

IsLetters(a) == a # <<>> /\ Chars(a) \subseteq Letters

\* C6: 'f(A)' with A a letter sequence becomes 'f ot A'; 'f(A)' with A of
\* length >= 2 that is not a letter sequence and holds no parenthesis becomes
\* 'f skobka otkryvaetsya A skobka zakryvaetsya' and the operator stage then
\* expands the operators inside A; latex_to_text("f(x) = g(x-1)") is
\* 'f ot x ravno g skobka otkryvaetsya x minus 1 skobka zakryvaetsya'.
C6_FunctionApplication ==
    /\ (pass = 1 /\ case.fam = "paren" /\ case.pre # <<>> /\ IsLetters(case.arg))
          => /\ pc = "math_symbols" => text = case.pre \o <<" ","ru_o","ru_t"," ">> \o case.arg
             /\ pc = "return" => text = case.pre \o <<" ","ru_o","ru_t"," ">> \o case.arg
    /\ (pass = 1 /\ case.fam = "paren" /\ case.pre # <<>>
        /\ Len(case.arg) >= 2 /\ ~IsLetters(case.arg)
        /\ Chars(case.arg) \cap {"(", ")"} = {})
          => /\ pc = "math_symbols"
                  => text = case.pre \o <<" ","ru_s","ru_k","ru_o","ru_b","ru_k","ru_a"," ","ru_o","ru_t","ru_k","ru_r","ru_y","ru_v","ru_a","ru_e","ru_t","ru_s","ru_ya"," ">> \o case.arg
                            \o <<" ","ru_s","ru_k","ru_o","ru_b","ru_k","ru_a"," ","ru_z","ru_a","ru_k","ru_r","ru_y","ru_v","ru_a","ru_e","ru_t","ru_s","ru_ya">>
             /\ pc = "return"
                  => /\ text = Normalize(case.pre \o <<" ","ru_s","ru_k","ru_o","ru_b","ru_k","ru_a"," ","ru_o","ru_t","ru_k","ru_r","ru_y","ru_v","ru_a","ru_e","ru_t","ru_s","ru_ya"," ">>
                                 \o PyReplace(case.arg, <<"-">>, <<" ","ru_m","ru_i","ru_n","ru_u","ru_s"," ">>)
                                 \o <<" ","ru_s","ru_k","ru_o","ru_b","ru_k","ru_a"," ","ru_z","ru_a","ru_k","ru_r","ru_y","ru_v","ru_a","ru_e","ru_t","ru_s","ru_ya">>)
                     /\ Chars(text) \cap {"-", "(", ")"} = {}
    /\ (Out1 /\ case = [fam |-> "fixed", i |-> 3])
          => text = <<"f"," ","ru_o","ru_t"," ","x"," ","ru_r","ru_a","ru_v","ru_n","ru_o"," ","g"," ","ru_s","ru_k","ru_o","ru_b","ru_k","ru_a"," ","ru_o","ru_t","ru_k","ru_r","ru_y","ru_v","ru_a","ru_e","ru_t","ru_s","ru_ya"," ","x"," ","ru_m","ru_i","ru_n","ru_u","ru_s"," ","1"," ","ru_s","ru_k","ru_o","ru_b","ru_k","ru_a"," ","ru_z","ru_a","ru_k","ru_r","ru_y","ru_v","ru_a","ru_e","ru_t","ru_s","ru_ya">>

C6_Witness ==
    /\ Out1 /\ case.fam = "paren" /\ case.pre = <<"f">>
    /\ case.arg = <<"x", "-", "1">>
    /\ PyCount(text, <<"ru_m","ru_i","ru_n","ru_u","ru_s">>) = 1

GreekName(i, k) == LastValue(commands_literal, GreekKey(i, k))

RECURSIVE ExpectedChain(_, _, _, _)
ExpectedChain(i, k, n, op) ==
    IF k = n - 1 THEN GreekName(i, k)
    ELSE GreekName(i, k)
         \o (IF op = "+" THEN <<" ","ru_p","ru_l","ru_yu","ru_s"," ">> ELSE <<" ","ru_r","ru_a","ru_v","ru_n","ru_o"," ">>)
         \o ExpectedChain(i, k + 1, n, OtherOp(op))

\* C7: for an input made of lowercase Greek commands joined by '+' and '=',
\* latex_to_text returns the transliterated names joined by the words for plus
\* and equals, with no backslash and no Latin letter left; and
\* latex_to_text("\alpha + \beta = \gamma") is 'al'fa plyus beta ravno gamma'.
C7_GreekFormula ==
    /\ (Out1 /\ case.fam = "greek")
          => /\ text = ExpectedChain(case.i, 0, case.n, case.first)
             /\ Chars(text) \cap ({"\\"} \cup Letters) = {}
    /\ (Out1 /\ case = [fam |-> "fixed", i |-> 5])
          => text = <<"ru_a","ru_l","ru_soft","ru_f","ru_a"," ","ru_p","ru_l","ru_yu","ru_s"," ","ru_b","ru_e","ru_t","ru_a"," ","ru_r","ru_a","ru_v","ru_n","ru_o"," ","ru_g","ru_a","ru_m","ru_m","ru_a">>

C7_Witness ==
    /\ Out1 /\ case.fam = "greek" /\ case.n = 2 /\ ~case.spaced
    /\ src = <<"\\","e","t","a","=","\\","t","h","e","t","a">>
    /\ text = <<"ru_eh","ru_t","ru_a"," ","ru_r","ru_a","ru_v","ru_n","ru_o"," ","ru_t","ru_e","ru_t","ru_a">>

\* C8: for an input that is empty or only whitespace, latex_to_text returns
\* the empty string, never a single space.
C8_BlankGivesEmpty ==
    (Out1 /\ case.fam = "blank") => text = <<>>

C8_Witness ==
    Out1 /\ case.fam = "blank" /\ src = <<"\r", "\n">> /\ text = <<>>

ParenPc(k) == <<"paren_1", "paren_2", "paren_3", "paren_4", "paren_5">>[k]

(* the matches sub-rule k is about to make *)
PendingMatches(k) ==
    LET ms == Matches(ParenRule(k), text, 1) IN {ms[n] : n \in 1..Len(ms)}

\* C9 as stated: text that an earlier sub-rule of the parenthesis stage has
\* rewritten is never matched by a later sub-rule: every match of a later
\* sub-rule lies outside it.
C9_NoRematch ==
    \A k \in 1..5 :
        pc = ParenPc(k) =>
            \A m \in PendingMatches(k) : \A j \in m.s..m.e : marks[j] = 0

\* C9 as amended: the sub-rules run one after the other over the whole text;
\* the text a sub-rule produces holds no closing parenthesis, so every match
\* of a later sub-rule ends at a closing parenthesis of the text no sub-rule
\* has rewritten (while the rest of the match may be rewritten text).
C9_RewrittenHasNoCloser ==
    /\ pc \in {ParenPc(k) : k \in 1..5} \cup {"math_symbols"}
          => /\ Len(marks) = Len(text)
             /\ \A j \in 1..Len(text) : marks[j] # 0 => text[j] # ")"
    /\ \A k \in 1..5 :
          pc = ParenPc(k) => \A m \in PendingMatches(k) : marks[m.e] = 0

C9_Witness ==
    /\ pc = ParenPc(5) /\ pass = 1
    /\ src = <<"f","(","(","t",")",")">>
    /\ \E m \in PendingMatches(5) : \E j \in m.s..m.e : marks[j] = 2

(* the numerator holds a brace group: an opening brace and a later closing one *)
HasNestedGroup(num) ==
    \E i, j \in 1..Len(num) : i < j /\ num[i] = "{" /\ num[j] = "}"

(* num up to its first closing brace *)
CutAtFirstCloser(num) ==
    SubSeq(num, 1, Find(num, <<"}">>, 1) - 1)

\* C10 as stated: whenever the numerator group of \frac, \dfrac or \cfrac
\* holds a nested brace group, the fraction is still rewritten to
\* 'drob', sverhu X, snizu Y' with X cut at the first inner closing brace.
C10_NestedStillRewritten ==
    (pc = "square_roots" /\ pass = 1 /\ case.fam = "frac" /\ HasNestedGroup(case.num))
        => LitAt(text, 1, <<"ru_d","ru_r","ru_o","ru_b","ru_soft",","," ","ru_s","ru_v","ru_e","ru_r","ru_h","ru_u"," ">> \o PyStrip(CutAtFirstCloser(case.num))
                          \o <<","," ","ru_s","ru_n","ru_i","ru_z","ru_u"," ">>)

(* What the fraction stage makes of  cmd{ body  when the numerator ends at the
   first closing brace of body: rewritten only if that brace is followed by
   '{', a non-empty run without '}' and '}'. *)
ExpectedFraction(cmd, body) ==
    LET p1 == Find(body, <<"}">>, 1)
        p2 == Find(body, <<"}">>, p1 + 2)
    IN  IF /\ p1 > 1
           /\ p1 + 1 <= Len(body) /\ body[p1 + 1] = "{"
           /\ p2 > p1 + 2
        THEN <<"ru_d","ru_r","ru_o","ru_b","ru_soft",","," ","ru_s","ru_v","ru_e","ru_r","ru_h","ru_u"," ">> \o PyStrip(SubSeq(body, 1, p1 - 1))
             \o <<","," ","ru_s","ru_n","ru_i","ru_z","ru_u"," ">> \o PyStrip(SubSeq(body, p1 + 2, p2 - 1))
             \o Tail_(body, p2 + 1)
        ELSE cmd \o <<"{">> \o body

\* C10 as amended: fraction expansion has no brace balancing: the numerator
\* group ends at the first closing brace after the command's opening brace,
\* and the fraction is rewritten only when that brace is directly followed by
\* '{', a non-empty run without '}' and '}'; otherwise the stage leaves the
\* fraction as it is.  '\frac{a{b}}{c}' is left unexpanded, and
\* '\frac{a{b}{c}}{d}' becomes 'drob', sverhu a{b, snizu c' followed by '}{d}'.
C10_NumeratorEndsAtFirstCloser ==
    /\ (pc = "square_roots" /\ pass = 1 /\ case.fam = "frac")
          => text = ExpectedFraction(case.cmd, case.num \o <<"}","{","c","}">>)
    /\ (pc = "square_roots" /\ pass = 1 /\ case = [fam |-> "fixed", i |-> 9])
          => text = src
    /\ (pc = "square_roots" /\ pass = 1 /\ case = [fam |-> "fixed", i |-> 10])
          => text = <<"ru_d","ru_r","ru_o","ru_b","ru_soft",","," ","ru_s","ru_v","ru_e","ru_r","ru_h","ru_u"," ","a","{","b",","," ","ru_s","ru_n","ru_i","ru_z","ru_u"," ","c","}","{","d","}">>

C10_Witness ==
    /\ pc = "square_roots" /\ pass = 1
    /\ case.fam = "frac" /\ case.num = <<"a", "{", "}">>
    /\ text = src

(* the final element of the spd-say command line, once the command is run *)
EngineArgument == text

\* C11: for every non-empty input s, when spd-say is available, the text
\* that latex_to_speech(s) hands to the engine as the final spd-say argument
\* equals latex_to_text(s): the pipeline runs exactly once between the
\* caller's input and the engine.
C11_EngineGetsSingleConversion ==
    pc = "spd_say" => EngineArgument = FirstOutput

=============================================================================
